---------------------------- MODULE Spec2Model ----------------------------
(***************************************************************************)
(* A model of Autocorrector.py: the frequency model, the edit generator,   *)
(* the corrector get_best_correction and the session driver main().        *)
(*                                                                         *)
(* A character is a code: 1..26 are 'a'..'z', 27..52 are 'A'..'Z', and     *)
(* Space, Digit and Punct stand for a whitespace character, a digit and a  *)
(* punctuation character. A string is a sequence of codes. A probability   *)
(* count/total is the reduced fraction <<num, den>>; floating-point        *)
(* rounding is not modelled.                                               *)
(***************************************************************************)
EXTENDS Integers, Sequences, FiniteSets, TLC

VARIABLES
    pc,             \* where the run stands
    dataset,        \* the corpus file: NoFile, or File(text)
    args,           \* the parsed command line: [k, lemmatize]
    words,          \* main: the token list of the corpus
    word_count,     \* main: the Counter of the tokens
    probabilities,  \* main: the probability table
    vocab,          \* main: the key set of word_count
    user_input,     \* main: the trimmed, lowercased input line
    query,          \* the word handed to the edit generator or the corrector
    suggestions,    \* the list get_best_correction returned
    out,            \* the messages printed so far
    exit_code,      \* <<status>> once the process has exited, NoExit before
    prompts,        \* how many times input() was called
    calls,          \* how many times get_best_correction was called
    event,          \* what the last input() raised or returned
    edits           \* the value an edit operation returned

vars == <<pc, dataset, args, words, word_count, probabilities, vocab, user_input,
          query, suggestions, out, exit_code, prompts, calls, event, edits>>

----------------------------------------------------------------------------
(* Bounds of the model.                                                    *)

\* the longest word handed to the edit generator or the corrector
MaxLen == 2
\* the largest number of suggestions asked for
MaxK == 2
\* the longest token list of the frequency model's specification
MaxTokens == 4
\* the longest input line of the session
MaxLine == 2
\* the number of prompts of one session
MaxPrompts == 2

\* the letters the corrector's queries are drawn from: 'a', 'b'
QueryLetters == {1, 2}

\* further words for the edit generator: "c", "z", "az", "zb", "cz", "zz",
\* "abc", "cab"
OtherWords ==
    {<<3>>, <<26>>, <<1, 26>>, <<26, 2>>, <<3, 26>>, <<26, 26>>,
     <<1, 2, 3>>, <<3, 1, 2>>}

SeqsUpTo(S, n) == UNION {[1..m -> S] : m \in 0..n}

QueryWords == SeqsUpTo(QueryLetters, MaxLen)

EditWords == QueryWords \cup OtherWords

----------------------------------------------------------------------------
(* Characters and strings.                                                 *)

NumLetters == 26
letters == [c \in 1..NumLetters |-> c]

Space == 2 * NumLetters + 1
Digit == 2 * NumLetters + 2
Punct == 2 * NumLetters + 3

Range(s) == {s[i] : i \in DOMAIN s}

----------------------------------------------------------------------------
(* Step 5: the edit functions. Each returns a list.                        *)

delete_letter(word) ==
    [i \in 1..Len(word) |->
        SubSeq(word, 1, i - 1) \o SubSeq(word, i + 1, Len(word))]

swap_letters(word) ==
    [i \in 1..(Len(word) - 1) |->
        SubSeq(word, 1, i - 1) \o <<word[i + 1], word[i]>>
            \o SubSeq(word, i + 2, Len(word))]

replace_letter(word) ==
    [j \in 1..(Len(word) * Len(letters)) |->
        LET i == ((j - 1) \div Len(letters)) + 1
            l == letters[((j - 1) % Len(letters)) + 1]
        IN  SubSeq(word, 1, i - 1) \o <<l>> \o SubSeq(word, i + 1, Len(word))]

\* a plausible bug: range(len(word)) leaves out the gap after the last letter
insert_letter_no_end(word) ==
    [j \in 1..(Len(word) * Len(letters)) |->
        LET i == ((j - 1) \div Len(letters)) + 1
            l == letters[((j - 1) % Len(letters)) + 1]
        IN  SubSeq(word, 1, i - 1) \o <<l>> \o SubSeq(word, i, Len(word))]

insert_letter(word) ==
    [j \in 1..((Len(word) + 1) * Len(letters)) |->
        LET i == ((j - 1) \div Len(letters)) + 1
            l == letters[((j - 1) % Len(letters)) + 1]
        IN  SubSeq(word, 1, i - 1) \o <<l>> \o SubSeq(word, i, Len(word))]

----------------------------------------------------------------------------
(* Step 6: the candidate sets.                                             *)

generate_candidates(word) ==
    Range(delete_letter(word)) \cup Range(swap_letters(word))
        \cup Range(replace_letter(word)) \cup Range(insert_letter(word))

\* generate_candidates_level2 on every query word of the model, evaluated once
Level2Table ==
    {<<qw, UNION {generate_candidates(w1) : w1 \in generate_candidates(qw)}>> :
        qw \in QueryWords}

\* a plausible bug: keep only the words that are not already one edit away
generate_candidates_level2_filtered(word) ==
    UNION {generate_candidates(w1) : w1 \in generate_candidates(word)}
        \ (generate_candidates(word) \cup {word})

generate_candidates_level2(word) ==
    IF \E row \in Level2Table : row[1] = word
    THEN (CHOOSE row \in Level2Table : row[1] = word)[2]
    ELSE UNION {generate_candidates(w1) : w1 \in generate_candidates(word)}

----------------------------------------------------------------------------
(* The edit generator on its own: a word is drawn and one of the six       *)
(* functions is applied to it.                                             *)

\* open() raises FileNotFoundError
NoFile == [found |-> FALSE, text |-> <<>>]
\* a file holding text
File(text) == [found |-> TRUE, text |-> text]
\* the process is running: no exit status yet
NoExit == <<>>

Idle ==
    /\ dataset = NoFile
    /\ args = [k |-> 1, lemmatize |-> FALSE]
    /\ words = <<>>
    /\ word_count = <<>>
    /\ probabilities = <<>>
    /\ vocab = {}
    /\ user_input = <<>>
    /\ suggestions = <<>>
    /\ out = <<>>
    /\ exit_code = NoExit
    /\ prompts = 0
    /\ calls = 0
    /\ event = "none"

InitEdit ==
    /\ Idle
    /\ pc = "word"
    /\ query \in EditWords
    /\ edits = <<>>

Apply(op, value) ==
    /\ pc = "word"
    /\ pc' = op
    /\ edits' = value
    /\ UNCHANGED <<dataset, args, words, word_count, probabilities, vocab,
                   user_input, query, suggestions, out, exit_code, prompts, calls, event>>

Delete == Apply("delete_letter", delete_letter(query))
Swap == Apply("swap_letters", swap_letters(query))
Replace == Apply("replace_letter", replace_letter(query))
Insert == Apply("insert_letter", insert_letter(query))
Generate == Apply("generate_candidates", generate_candidates(query))
Level2 == Apply("generate_candidates_level2", generate_candidates_level2(query))

NextEdit == Delete \/ Swap \/ Replace \/ Insert \/ Generate \/ Level2

SpecEdit == InitEdit /\ [][NextEdit]_vars

----------------------------------------------------------------------------
(* Steps 3 and 4: the frequency model.                                     *)

\* Counter(words): each distinct token with its number of occurrences
count_word_frequency(tokens) ==
    [t \in Range(tokens) |-> Cardinality({i \in DOMAIN tokens : tokens[i] = t})]

RECURSIVE sum_values(_)
\* sum(word_count.values())
sum_values(counts) ==
    IF DOMAIN counts = {} THEN 0
    ELSE LET t == CHOOSE t1 \in DOMAIN counts : TRUE
         IN  counts[t] + sum_values([t2 \in DOMAIN counts \ {t} |-> counts[t2]])

RECURSIVE GCD(_, _)
GCD(a, b) == IF b = 0 THEN a ELSE GCD(b, a % b)

\* c / total, for total > 0: the fraction in lowest terms
TrueDiv(c, total) == <<c \div GCD(c, total), total \div GCD(c, total)>>

\* 0.0
Zero == <<0, 1>>

\* p < q on fractions
Less(p, q) == p[1] * q[2] < q[1] * p[2]

\* a plausible bug: dividing by the number of distinct words
calculate_probability_by_len(counts) ==
    LET total == Cardinality(DOMAIN counts)
    IN  IF total # 0
        THEN [t \in DOMAIN counts |-> TrueDiv(counts[t], total)]
        ELSE <<>>

calculate_probability(counts) ==
    LET total == sum_values(counts)
    IN  IF total # 0
        THEN [t \in DOMAIN counts |-> TrueDiv(counts[t], total)]
        ELSE <<>>

----------------------------------------------------------------------------
(* The frequency model on its own: a token list is drawn, counted, and     *)
(* turned into probabilities.                                              *)

\* the tokens of the drawn lists: "a", "b", "ab"
TokenWords == {<<1>>, <<2>>, <<1, 2>>}

InitFreq ==
    /\ pc = "tokens"
    /\ dataset = NoFile
    /\ args = [k |-> 1, lemmatize |-> FALSE]
    /\ words \in SeqsUpTo(TokenWords, MaxTokens)
    /\ word_count = <<>>
    /\ probabilities = <<>>
    /\ vocab = {}
    /\ user_input = <<>>
    /\ query = <<>>
    /\ suggestions = <<>>
    /\ out = <<>>
    /\ exit_code = NoExit
    /\ prompts = 0
    /\ calls = 0
    /\ event = "none"
    /\ edits = <<>>

Count ==
    /\ pc = "tokens"
    /\ pc' = "counted"
    /\ word_count' = count_word_frequency(words)
    /\ vocab' = DOMAIN word_count'
    /\ UNCHANGED <<dataset, args, words, probabilities, user_input, query,
                   suggestions, out, exit_code, prompts, calls, event, edits>>

Probability ==
    /\ pc = "counted"
    /\ pc' = "probabilities"
    /\ probabilities' = calculate_probability(word_count)
    /\ UNCHANGED <<dataset, args, words, word_count, vocab, user_input, query,
                   suggestions, out, exit_code, prompts, calls, event, edits>>

NextFreq == Count \/ Probability

SpecFreq == InitFreq /\ [][NextFreq]_vars

----------------------------------------------------------------------------
(* Step 7: the corrector.                                                  *)

\* probs.get(w, 0.0)
get(probs, w) == IF w \in DOMAIN probs THEN probs[w] ELSE Zero

\* a plausible bug: no exact-match short-circuit
candidates_no_exact(word, vocabulary) ==
    LET level1 == generate_candidates(word) \cap vocabulary
    IN  IF level1 # {}
        THEN level1
        ELSE generate_candidates_level2(word) \cap vocabulary

\* a plausible bug: the two tiers merged instead of cascaded
candidates_union(word, vocabulary) ==
    IF word \in vocabulary
    THEN {word}
    ELSE (generate_candidates(word) \cup generate_candidates_level2(word))
            \cap vocabulary

\* the elements of the list `candidates`
candidates(word, vocabulary) ==
    IF word \in vocabulary
    THEN {word}
    ELSE LET level1 == generate_candidates(word) \cap vocabulary
         IN  IF level1 # {}
             THEN level1
             ELSE generate_candidates_level2(word) \cap vocabulary

\* list(s): a set's iteration order is any order
list_orders(S) == {f \in [1..Cardinality(S) -> S] : Range(f) = S}

\* x put into a list that is sorted by descending probability, behind every
\* element that does not rank below it (the sort is stable)
insert_ranked(ranked, x, probs) ==
    LET before == {i \in DOMAIN ranked : ~Less(get(probs, ranked[i]), get(probs, x))}
        n == Cardinality(before)
    IN  SubSeq(ranked, 1, n) \o <<x>> \o SubSeq(ranked, n + 1, Len(ranked))

RECURSIVE sorted_ascending(_, _)
\* a plausible bug: reverse=True forgotten
sorted_ascending(cands, probs) ==
    IF cands = <<>> THEN <<>>
    ELSE LET ranked == sorted_ascending(SubSeq(cands, 1, Len(cands) - 1), probs)
             x == cands[Len(cands)]
             n == Cardinality({i \in DOMAIN ranked :
                                 ~Less(get(probs, x), get(probs, ranked[i]))})
         IN  SubSeq(ranked, 1, n) \o <<x>> \o SubSeq(ranked, n + 1, Len(ranked))

RECURSIVE sorted_by_probability(_, _)
\* sorted(..., key=lambda x: x[1], reverse=True), the words of the pairs
sorted_by_probability(cands, probs) ==
    IF cands = <<>> THEN <<>>
    ELSE insert_ranked(sorted_by_probability(SubSeq(cands, 1, Len(cands) - 1), probs),
                       cands[Len(cands)], probs)

\* ranked[:n]
slice(ranked, n) ==
    IF n >= 0
    THEN SubSeq(ranked, 1, IF n < Len(ranked) THEN n ELSE Len(ranked))
    ELSE SubSeq(ranked, 1, IF Len(ranked) + n > 0 THEN Len(ranked) + n ELSE 0)

\* the lists get_best_correction may return, one for each iteration order of
\* the candidate set
get_best_correction(word, probs, vocabulary, max_suggestions) ==
    {slice(sorted_by_probability(cands, probs), max_suggestions) :
        cands \in list_orders(candidates(word, vocabulary))}

----------------------------------------------------------------------------
(* The corrector on its own: a query, a vocabulary, a probability table    *)
(* and k are drawn and get_best_correction is called.                      *)

\* the words vocabularies are drawn from: "b", "ab", "ba", "bbac"
VocabWords == {<<2>>, <<1, 2>>, <<2, 1>>, <<2, 2, 1, 3>>}

\* the values of the drawn tables: 0.0, 1/3, 2/3
ProbValues == {Zero, TrueDiv(1, 3), TrueDiv(2, 3)}

InitCorrect ==
    /\ pc = "call"
    /\ dataset = NoFile
    /\ args \in [k : 0..MaxK, lemmatize : {FALSE}]
    /\ words = <<>>
    /\ word_count = <<>>
    /\ vocab \in SUBSET VocabWords
    /\ \E keys \in SUBSET vocab : probabilities \in [keys -> ProbValues]
    /\ user_input = <<>>
    /\ query \in QueryWords
    /\ suggestions = <<>>
    /\ out = <<>>
    /\ exit_code = NoExit
    /\ prompts = 0
    /\ calls = 0
    /\ event = "none"
    /\ edits = <<>>

Correct ==
    /\ pc = "call"
    /\ pc' = "returned"
    /\ suggestions' \in get_best_correction(query, probabilities, vocab, args.k)
    /\ calls' = calls + 1
    /\ UNCHANGED <<dataset, args, words, word_count, probabilities, vocab,
                   user_input, query, out, exit_code, prompts, event, edits>>

NextCorrect == Correct

SpecCorrect == InitCorrect /\ [][NextCorrect]_vars

----------------------------------------------------------------------------
(* Step 2: the tokenizer, and the string methods main() uses.              *)

is_upper(c) == c \in (NumLetters + 1)..(2 * NumLetters)

\* str.lower()
lower(text) ==
    [i \in DOMAIN text |-> IF is_upper(text[i]) THEN text[i] - NumLetters ELSE text[i]]

\* str.strip(): leading and trailing whitespace removed
strip(text) ==
    LET inked == {i \in DOMAIN text : text[i] # Space}
    IN  IF inked = {} THEN <<>>
        ELSE SubSeq(text,
                    CHOOSE i \in inked : \A j \in inked : i <= j,
                    CHOOSE i \in inked : \A j \in inked : j <= i)

\* \w, on the characters of the model: a letter or a digit
is_word_char(c) == c \in 1..(2 * NumLetters) \/ c = Digit

RECURSIVE findall(_)
\* WORD_RE.findall: the maximal runs of word characters, left to right
findall(text) ==
    IF text = <<>> THEN <<>>
    ELSE IF ~is_word_char(text[1]) THEN findall(Tail(text))
    ELSE LET n == CHOOSE m \in 1..Len(text) :
                     /\ \A i \in 1..m : is_word_char(text[i])
                     /\ m = Len(text) \/ ~is_word_char(text[m + 1])
         IN  <<SubSeq(text, 1, n)>> \o findall(SubSeq(text, n + 1, Len(text)))

words_from_text(text) == findall(lower(text))

\* a plausible bug: re.match, which accepts a string that only starts with a letter
fullmatch_prefix_only(text) == text # <<>> /\ text[1] \in 1..NumLetters

\* re.fullmatch(r"[a-z]+", text)
fullmatch_az(text) == text # <<>> /\ \A i \in DOMAIN text : text[i] \in 1..NumLetters

\* the results WordNetLemmatizer.lemmatize may give: the word, or a shorter
\* base form of it (the library is outside the repository)
lemmatize_word(word) ==
    {word} \cup (IF Len(word) >= 2 THEN {SubSeq(word, 1, Len(word) - 1)} ELSE {})

\* "exit", "quit"
exit_word == <<5, 24, 9, 20>>
quit_word == <<17, 21, 9, 20>>

----------------------------------------------------------------------------
(* The session driver main().                                              *)

\* the corpus texts: "", " ", "- ", "a", "Ab ab ba", "b a1 b"
Corpora ==
    {<<>>,
     <<Space>>,
     <<Punct, Space>>,
     <<1>>,
     <<NumLetters + 1, 2, Space, 1, 2, Space, 2, 1>>,
     <<2, Space, 1, Digit, Space, 2>>}

\* the characters of the input lines: 'a', 'B', ' ', a digit
InputChars == {1, NumLetters + 2, Space, Digit}

\* "exit", "quit" and " QUIT"
CommandLines ==
    {exit_word, quit_word, <<Space>> \o [i \in 1..4 |-> quit_word[i] + NumLetters]}

InputLines == SeqsUpTo(InputChars, MaxLine) \cup CommandLines

Init ==
    /\ pc = "start"
    /\ dataset \in {NoFile} \cup {File(text) : text \in Corpora}
    /\ args \in [k : 1..MaxK, lemmatize : BOOLEAN]
    /\ words = <<>>
    /\ word_count = <<>>
    /\ probabilities = <<>>
    /\ vocab = {}
    /\ user_input = <<>>
    /\ query = <<>>
    /\ suggestions = <<>>
    /\ out = <<>>
    /\ exit_code = NoExit
    /\ prompts = 0
    /\ calls = 0
    /\ event = "none"
    /\ edits = <<>>

\* a plausible bug: the empty-vocabulary check left out
LoadUnchecked ==
    /\ pc = "start"
    /\ IF dataset = NoFile
       THEN /\ out' = out \o <<"[Error] Dataset not found", "Create a 'final.txt'">>
            /\ exit_code' = <<1>>
            /\ pc' = "exited"
            /\ UNCHANGED <<words, word_count, probabilities, vocab>>
       ELSE /\ words' = words_from_text(dataset.text)
            /\ word_count' = count_word_frequency(words')
            /\ probabilities' = calculate_probability(word_count')
            /\ vocab' = DOMAIN word_count'
            /\ out' = out \o <<"Autocorrector ready">>
            /\ pc' = "input"
            /\ UNCHANGED exit_code
    /\ UNCHANGED <<dataset, args, user_input, query, suggestions, prompts, calls,
                   event, edits>>

\* lines 129-144: the corpus is loaded and the tables are built
Load ==
    /\ pc = "start"
    /\ IF dataset = NoFile
       THEN /\ out' = out \o <<"[Error] Dataset not found", "Create a 'final.txt'">>
            /\ exit_code' = <<1>>
            /\ pc' = "exited"
            /\ UNCHANGED <<words, word_count, probabilities, vocab>>
       ELSE /\ words' = words_from_text(dataset.text)
            /\ word_count' = count_word_frequency(words')
            /\ probabilities' = calculate_probability(word_count')
            /\ vocab' = DOMAIN word_count'
            /\ IF vocab' = {}
               THEN /\ out' = out \o <<"[Error] Dataset appears to be empty">>
                    /\ exit_code' = <<1>>
                    /\ pc' = "exited"
               ELSE /\ out' = out \o <<"Autocorrector ready">>
                    /\ pc' = "input"
                    /\ UNCHANGED exit_code
    /\ UNCHANGED <<dataset, args, user_input, query, suggestions, prompts, calls,
                   event, edits>>

\* line 147: input() returns a line
ReadLine ==
    /\ pc = "input"
    /\ prompts < MaxPrompts
    /\ prompts' = prompts + 1
    /\ \E line \in InputLines : user_input' = lower(strip(line))
    /\ event' = "line"
    /\ pc' = "body"
    /\ UNCHANGED <<dataset, args, words, word_count, probabilities, vocab, query,
                   suggestions, out, exit_code, calls, edits>>

\* lines 148-150 and 167: input() raises EOFError or KeyboardInterrupt
EndOfInput ==
    /\ pc = "input"
    /\ prompts < MaxPrompts
    /\ prompts' = prompts + 1
    /\ event' \in {"EOFError", "KeyboardInterrupt"}
    /\ out' = out \o <<"", "Goodbye!">>
    /\ exit_code' = <<0>>
    /\ pc' = "exited"
    /\ UNCHANGED <<dataset, args, words, word_count, probabilities, vocab,
                   user_input, query, suggestions, calls, edits>>

\* lines 152-153 and 167
Quit ==
    /\ pc = "body"
    /\ user_input \in {exit_word, quit_word}
    /\ out' = out \o <<"Goodbye!">>
    /\ exit_code' = <<0>>
    /\ pc' = "exited"
    /\ UNCHANGED <<dataset, args, words, word_count, probabilities, vocab,
                   user_input, query, suggestions, prompts, calls, event, edits>>

\* lines 155-157
Reject ==
    /\ pc = "body"
    /\ user_input \notin {exit_word, quit_word}
    /\ ~fullmatch_az(user_input)
    /\ out' = out \o <<"Please enter only alphabetic characters (a-z).">>
    /\ pc' = "input"
    /\ UNCHANGED <<dataset, args, words, word_count, probabilities, vocab,
                   user_input, query, suggestions, exit_code, prompts, calls,
                   event, edits>>

\* a plausible bug: the query is learned as a known word
SuggestLearning ==
    /\ pc = "body"
    /\ user_input \notin {exit_word, quit_word}
    /\ fullmatch_az(user_input)
    /\ query' \in (IF args.lemmatize THEN lemmatize_word(user_input) ELSE {user_input})
    /\ suggestions' \in get_best_correction(query', probabilities, vocab, args.k)
    /\ calls' = calls + 1
    /\ vocab' = vocab \cup {query'}
    /\ out' = out \o <<IF suggestions' # <<>> THEN "Top suggestions:"
                                              ELSE "(No suggestions found)">>
    /\ pc' = "input"
    /\ UNCHANGED <<dataset, args, words, word_count, probabilities,
                   user_input, exit_code, prompts, event, edits>>

\* lines 159-165
Suggest ==
    /\ pc = "body"
    /\ user_input \notin {exit_word, quit_word}
    /\ fullmatch_az(user_input)
    /\ query' \in (IF args.lemmatize THEN lemmatize_word(user_input) ELSE {user_input})
    /\ suggestions' \in get_best_correction(query', probabilities, vocab, args.k)
    /\ calls' = calls + 1
    /\ out' = out \o <<IF suggestions' # <<>> THEN "Top suggestions:"
                                              ELSE "(No suggestions found)">>
    /\ pc' = "input"
    /\ UNCHANGED <<dataset, args, words, word_count, probabilities, vocab,
                   user_input, exit_code, prompts, event, edits>>

\* a SIGINT delivered while lines 152-165 run: KeyboardInterrupt is raised
\* outside the try block, nothing catches it, and the interpreter prints the
\* traceback and ends with status 1, or dies of the signal (status 130)
Interrupted ==
    /\ pc = "body"
    /\ event' = "KeyboardInterrupt"
    /\ out' = out \o <<"Traceback">>
    /\ exit_code' \in {<<1>>, <<130>>}
    /\ pc' = "exited"
    /\ UNCHANGED <<dataset, args, words, word_count, probabilities, vocab,
                   user_input, query, suggestions, prompts, calls, edits>>

Next ==
    \/ Load
    \/ ReadLine
    \/ EndOfInput
    \/ Quit
    \/ Reject
    \/ Suggest
    \/ Interrupted

Spec == Init /\ [][Next]_vars

----------------------------------------------------------------------------
(* The properties.                                                         *)

\* the probability a word ranks by: its entry, 0.0 without one
Prob(w) == IF w \in DOMAIN probabilities THEN probabilities[w] ELSE <<0, 1>>

Level1Known == generate_candidates(query) \cap vocab
Level2Known == generate_candidates_level2(query) \cap vocab

(* C1: a query that is a vocabulary word comes back alone, as the          *)
(* one-element list of itself, for every k >= 1, whatever else the         *)
(* vocabulary holds.                                                       *)
ExactMatchShortCircuit ==
    (pc = "returned" /\ args.k >= 1 /\ query \in vocab) => suggestions = <<query>>

\* an exact match with a more probable vocabulary word one edit away, k >= 2
ExactMatchWitness ==
    /\ pc = "returned"
    /\ args.k >= 2
    /\ query \in vocab
    /\ \E v \in Level1Known \ {query} : Less(Prob(query), Prob(v))
    /\ suggestions = <<query>>

(* C2: for a query outside the vocabulary and k >= 1, the returned words   *)
(* are one-edit vocabulary words when there is one, two-edit vocabulary    *)
(* words otherwise, and the list is empty exactly when both intersections  *)
(* are empty.                                                              *)
StrictPriorityCascade ==
    (pc = "returned" /\ args.k >= 1 /\ query \notin vocab) =>
        /\ Level1Known # {} => Range(suggestions) \subseteq Level1Known
        /\ Level1Known = {} => Range(suggestions) \subseteq Level2Known
        /\ suggestions = <<>> <=> (Level1Known = {} /\ Level2Known = {})

\* a one-edit word is returned although a two-edit-only word is more probable
CascadeWitness ==
    /\ pc = "returned"
    /\ args.k >= 2
    /\ query \notin vocab
    /\ Level1Known # {}
    /\ \E far \in Level2Known \ Level1Known :
           \A near \in Level1Known : Less(Prob(near), Prob(far))
    /\ suggestions # <<>>

(* C3: for k >= 1 the returned list has no duplicates, holds exactly       *)
(* min(k, |C|) words of the candidate set C, is ordered by non-increasing  *)
(* probability (0.0 for a word without an entry), and leaves out no        *)
(* candidate more probable than one it holds.                              *)
TopKRanking ==
    (pc = "returned" /\ args.k >= 1) =>
        LET C == candidates(query, vocab)
            n == Len(suggestions)
        IN  /\ \A i, j \in 1..n : i # j => suggestions[i] # suggestions[j]
            /\ Range(suggestions) \subseteq C
            /\ n = IF args.k < Cardinality(C) THEN args.k ELSE Cardinality(C)
            /\ \A i, j \in 1..n :
                   i < j => ~Less(Prob(suggestions[i]), Prob(suggestions[j]))
            /\ \A c \in C \ Range(suggestions) :
                   \A i \in 1..n : ~Less(Prob(suggestions[i]), Prob(c))

\* more candidates than k, two returned with different probabilities, and a
\* candidate without an entry
TopKWitness ==
    /\ pc = "returned"
    /\ args.k >= 2
    /\ Cardinality(candidates(query, vocab)) > args.k
    /\ Len(suggestions) = args.k
    /\ Less(Prob(suggestions[2]), Prob(suggestions[1]))
    /\ candidates(query, vocab) \ DOMAIN probabilities # {}

\* the corpus holds no word character, or there is no corpus
NothingToLearn ==
    ~dataset.found \/ \A i \in DOMAIN dataset.text : dataset.text[i] \in {Space, Punct}

(* C4: with the corpus missing or without a single token, main() reports   *)
(* the error and exits with status 1 before any prompt or query; the loop  *)
(* runs only on a non-empty vocabulary.                                    *)
FatalLoadErrors ==
    /\ (NothingToLearn /\ pc # "start") =>
           /\ pc = "exited"
           /\ exit_code = <<1>>
           /\ prompts = 0
           /\ calls = 0
           /\ out = IF dataset.found
                    THEN <<"[Error] Dataset appears to be empty">>
                    ELSE <<"[Error] Dataset not found", "Create a 'final.txt'">>
    /\ (pc \in {"input", "body"} \/ prompts > 0) => vocab # {}

\* a corpus file that holds text and no token
EmptyVocabularyWitness ==
    /\ pc = "exited"
    /\ dataset.found
    /\ dataset.text # <<>>
    /\ vocab = {}
    /\ exit_code = <<1>>

(* C5: once the loop has started, an end of input, an interrupt, 'exit' or *)
(* 'quit' ends the session with the farewell message and exit code 0.      *)
GracefulTermination ==
    (pc = "exited" /\ prompts > 0) =>
        /\ exit_code = <<0>>
        /\ out[Len(out)] = "Goodbye!"

\* not 'exit', not 'quit', and not a non-empty string of letters a-z
IsInvalid(text) ==
    /\ text \notin {exit_word, quit_word}
    /\ text = <<>> \/ \E i \in DOMAIN text : text[i] \notin 1..NumLetters

(* C6: an invalid input line is answered by the warning alone: no call of  *)
(* get_best_correction, no exit, and the loop is back at the prompt.       *)
InvalidQueryRecovered ==
    [][(pc = "body" /\ IsInvalid(user_input) /\ event' = "line") =>
           /\ pc' = "input"
           /\ out' = Append(out, "Please enter only alphabetic characters (a-z).")
           /\ exit_code' = NoExit
           /\ calls' = calls
           /\ suggestions' = suggestions
           /\ <<word_count', probabilities', vocab'>> = <<word_count, probabilities, vocab>>
      ]_vars

\* two invalid inputs in a row, one of them the empty line, and the loop runs
InvalidQueryWitness ==
    /\ pc = "input"
    /\ exit_code = NoExit
    /\ user_input = <<>>
    /\ Len(out) >= 3
    /\ out[Len(out)] = "Please enter only alphabetic characters (a-z)."
    /\ out[Len(out) - 1] = "Please enter only alphabetic characters (a-z)."

(* C7: after any sequence of queries the three tables are what the load    *)
(* built from the corpus, and the last suggestions are what the corrector  *)
(* gives for the query on the freshly built tables.                        *)
TablesReadOnly ==
    (dataset.found /\ pc # "start") =>
        LET loaded == count_word_frequency(words_from_text(dataset.text))
        IN  /\ word_count = loaded
            /\ probabilities = calculate_probability(loaded)
            /\ vocab = DOMAIN loaded
            /\ calls > 0 =>
                   suggestions \in get_best_correction(
                       query, calculate_probability(loaded), DOMAIN loaded, args.k)

\* a second query, lemmatized, after a first one, to a word the corpus lacks
TablesWitness ==
    /\ calls >= 2
    /\ args.lemmatize
    /\ query # user_input
    /\ query \notin vocab
    /\ suggestions # <<>>

Omitted(word, i) ==
    [j \in 1..(Len(word) - 1) |-> IF j < i THEN word[j] ELSE word[j + 1]]

\* word with its positions i and i + 1 exchanged
Exchanged(word, i) ==
    [j \in 1..Len(word) |->
        IF j = i THEN word[i + 1] ELSE IF j = i + 1 THEN word[i] ELSE word[j]]

\* word with the letter l in its position i
Substituted(word, i, l) == [j \in 1..Len(word) |-> IF j = i THEN l ELSE word[j]]

\* word with the letter l put in behind its first g letters
Inserted(word, g, l) ==
    [j \in 1..(Len(word) + 1) |->
        IF j <= g THEN word[j] ELSE IF j = g + 1 THEN l ELSE word[j - 1]]

(* C9: on a word of length n, delete_letter gives the n omissions,         *)
(* swap_letters the n-1 adjacent exchanges (none for n < 2), replace_letter*)
(* the 26n substitutions, insert_letter the 26(n+1) insertions, and        *)
(* generate_candidates is the union of the four, of at most                *)
(* n + max(n-1,0) + 26n + 26(n+1) words.                                   *)
EditOperations ==
    LET n == Len(query)
        A == NumLetters
    IN  /\ pc = "delete_letter" =>
               /\ Len(edits) = n
               /\ \A i \in 1..n : edits[i] = Omitted(query, i)
        /\ pc = "swap_letters" =>
               /\ Len(edits) = IF n < 2 THEN 0 ELSE n - 1
               /\ \A i \in 1..(n - 1) : edits[i] = Exchanged(query, i)
        /\ pc = "replace_letter" =>
               /\ Len(edits) = A * n
               /\ \A i \in 1..n : \A l \in 1..A :
                      edits[(i - 1) * A + l] = Substituted(query, i, l)
        /\ pc = "insert_letter" =>
               /\ Len(edits) = A * (n + 1)
               /\ \A g \in 0..n : \A l \in 1..A :
                      edits[g * A + l] = Inserted(query, g, l)
        /\ pc = "generate_candidates" =>
               /\ edits = {Omitted(query, i) : i \in 1..n}
                            \cup {Exchanged(query, i) : i \in 1..(n - 1)}
                            \cup {Substituted(query, i, l) : i \in 1..n, l \in 1..A}
                            \cup {Inserted(query, g, l) : g \in 0..n, l \in 1..A}
               /\ Cardinality(edits)
                      <= n + (IF n < 2 THEN 0 ELSE n - 1) + A * n + A * (n + 1)

\* the one-edit set of a word of two letters or more, smaller than the four
\* lists together
EditWitness ==
    /\ pc = "generate_candidates"
    /\ Len(query) >= 2
    /\ Cardinality(edits) < Len(query) + (Len(query) - 1)
                              + NumLetters * Len(query) + NumLetters * (Len(query) + 1)
    /\ \E g \in 0..Len(query) : Inserted(query, g, NumLetters) \in edits

(* C10: generate_candidates_level2(w) is the union of generate_candidates  *)
(* over the one-edit words of w, unfiltered: it holds w itself and every   *)
(* one-edit word of w, the empty word included.                            *)
TwoEditOverInclusive ==
    pc = "generate_candidates_level2" =>
        /\ edits = UNION {generate_candidates(w1) : w1 \in generate_candidates(query)}
        /\ query \in edits
        /\ generate_candidates(query) \subseteq edits

\* the empty word: its two-edit set holds the empty word and the 26 letters
TwoEditWitness ==
    /\ pc = "generate_candidates_level2"
    /\ query = <<>>
    /\ <<>> \in edits
    /\ \A l \in 1..NumLetters : <<l>> \in edits

=============================================================================
